---- MODULE Spec2Model ----
(***************************************************************************)
(* State-machine model of seren/Relay's synchronization engine (SyncFile)  *)
(* and connection state machine (HasProvider).                             *)
(*                                                                         *)
(* Every await of the TypeScript code is a suspension point: an operation  *)
(* is a chain of steps, one per await, and steps of different activations  *)
(* interleave.  The content-addressable store, the vault and the transport *)
(* are collaborators outside the two classes; they are modelled by the     *)
(* contract the classes consume.                                           *)
(***************************************************************************)
EXTENDS Integers, FiniteSets, Sequences, TLC

(* ------------------------------ bounds --------------------------------- *)

\* the largest value of Date.now() the model reaches
MaxClock == 2

\* calls of a SyncFile's methods made in one run
MaxCalls == 2

\* connection-error events the transport emits between two successful connects
MaxErrorEvents == 4

\* connect() calls of one kind waiting for their token at once
MaxPending == 1

(* ------------------------------ values --------------------------------- *)

Files == {"A", "B"}

\* one guid, tracked by two peers' SyncFile objects
Guids == {"g1"}

GuidOf(f) == "g1"

\* activations (calls in flight); two may run on the same SyncFile
Tasks == {"a1", "a2", "b1"}

\* the activations the synchronization runs use: one per peer
SyncTasks == {"a1", "b1"}

FileOf(t) == IF t = "b1" THEN "B" ELSE "A"

\* the files whose own connect() is called
Reconnecting == {"A"}

\* the byte contents a local file can hold
Contents == {"x", "y"}

\* the local byte store holds no file at the path
NoFile == "nofile"

\* JavaScript's undefined, where a hash string is expected
Undefined == <<"undefined", "">>

\* generateHash: the hex SHA-256 digest of the content (collision free)
generateHash(c) == <<"sha256", c>>

Hashes == {generateHash(c) : c \in Contents}

\* getByHash found no metadata record
NoRecord == [synchash |-> Undefined, content |-> NoFile]

VARIABLES
    \* ---- SyncFile, per tracked file
    local,       \* vault bytes at the file's path (NoFile: no file)
    tfile,       \* _tfile is set
    filehash,    \* _filehash
    synctime,    \* synctime
    connected,   \* connected
    \* ---- shared folder
    hashes,      \* sharedFolder.hashes
    synctimes,   \* sharedFolder.synctimes
    cas,         \* sharedFolder.cas: the stored records
    now,         \* Date.now()
    \* ---- activations
    run,         \* each activation's position and locals
    last,        \* the latest call to return: what it did and returned
    \* ---- observers
    hashTx,      \* the transaction that last wrote hashes[guid]
    timeTx,      \* the transaction that last wrote synctimes[guid]
    quiet,       \* hash returned by the file's latest push, while nothing changed since
    pushed,      \* bytes and file of the guid's latest completed push
    calls,       \* calls of SyncFile methods made so far
    \* ---- HasProvider (the shared folder's connection handle)
    s3rn,        \* _s3rn
    clientToken, \* clientToken
    url,         \* _provider.url
    shouldConnect, \* _provider.shouldConnect
    ws,          \* _provider.ws: Null or the socket's readyState
    wsUnsuccessfulReconnects, \* _provider.wsUnsuccessfulReconnects
    pendingAuto, \* connect() calls of the error handler waiting for a token
    pendingUser, \* connect() calls of callers waiting for a token
    tokenCallback, \* the token store holds refreshProvider as its callback
    pendingFile, \* files whose connect() waits for the handle's connect()
    note,        \* the handle's latest operation: what it told listeners and callers
    \* ---- observers
    errsSinceOpen,  \* errors met with intent connected and a URL since the socket last opened
    straysSinceOpen,  \* other error events since the socket last opened
    errsSinceReset, \* error events since it last opened or the URL changed
    autoRetries     \* automatic connect() calls among errsSinceReset

syncVars == <<local, tfile, filehash, synctime, connected, hashes, synctimes,
              cas, now, run, last, hashTx, timeTx, quiet, pushed, calls>>

provVars == <<s3rn, clientToken, url, shouldConnect, ws,
              wsUnsuccessfulReconnects, pendingAuto, pendingUser,
              tokenCallback, pendingFile, note, errsSinceOpen, straysSinceOpen,
              errsSinceReset, autoRetries>>

vars == <<syncVars, provVars>>

(* ------------------------- SyncFile: getters --------------------------- *)

\* a.get(k) || 0
OrZero(v) == IF v = Undefined THEN 0 ELSE v[2]

Time(n) == <<"time", n>>

serverHash(f) == hashes[GuidOf(f)]

\* a comparison that counts undefined as distinct from everything
StaleUndefinedDistinct(h, f) == h = Undefined \/ h # hashes[GuidOf(f)]

\* hash !== serverHash
StaleWith(h, f) == h # hashes[GuidOf(f)]

isStale(f) == StaleWith(filehash[f], f)

\* a test that also pulls at equal sync times
shouldPullOrSame(f) == OrZero(synctimes[GuidOf(f)]) >= synctime[f]

shouldPull(f) == OrZero(synctimes[GuidOf(f)]) > synctime[f]

getByHash(h) ==
    IF \E r \in cas : r.synchash = h
    THEN CHOOSE r \in cas : r.synchash = h
    ELSE NoRecord

\* an async function returns a Promise, whatever it resolves to
getRemote(f) ==
    [kind |-> "promise",
     value |-> IF serverHash(f) = Undefined THEN NoRecord ELSE getByHash(serverHash(f))]

\* !!v
Truthy(v) == v.kind # "undefined"

shouldPush(f) ==
    LET serverOutOfDate == OrZero(synctimes[GuidOf(f)]) < synctime[f]
        serverHasContent == Truthy(getRemote(f))
    IN  serverOutOfDate \/ ~serverHasContent

(* --------------------------- activations ------------------------------- *)

Idle ==
    [pc |-> "idle", op |-> "none", called |-> "none", h0 |-> Undefined,
     fileInfo |-> NoRecord, buf |-> NoFile, hash |-> Undefined, wr |-> "none",
     casRead |-> FALSE, written |-> NoFile, seq |-> Undefined, src |-> NoFile]

NoResult ==
    [task |-> "none", op |-> "none", called |-> "none", status |-> "none",
     err |-> "none", hash |-> Undefined, wr |-> "none"]

Result(t, r, status, err, hash) ==
    [task |-> t, op |-> r.op, called |-> r.called, status |-> status,
     err |-> err, hash |-> hash, wr |-> r.wr]

\* no transaction has written the entry
NoTx == [by |-> "none", hash |-> Undefined, time |-> 0]

SyncInit ==
    /\ now = 1
    /\ local \in [Files -> {NoFile} \cup Contents]
    /\ tfile = [f \in Files |-> local[f] # NoFile]
    /\ filehash = [f \in Files |-> Undefined]
    /\ synctime = [f \in Files |-> IF local[f] = NoFile THEN 0 ELSE now]
    /\ connected = [f \in Files |-> TRUE]
    /\ hashes = [g \in Guids |-> Undefined]
    /\ synctimes = [g \in Guids |-> Undefined]
    /\ cas = {}
    /\ run = [t \in Tasks |-> Idle]
    /\ last = NoResult
    /\ hashTx = [g \in Guids |-> NoTx]
    /\ timeTx = [g \in Guids |-> NoTx]
    /\ quiet = [f \in Files |-> Undefined]
    /\ pushed = [g \in Guids |-> [bytes |-> NoFile, by |-> "none"]]
    /\ calls = 0

(* ------------------- observers' bookkeeping (no code) ------------------ *)

\* the activations other than t, after an event that breaks "twice in
\* sequence with unchanged bytes" for the files in F and, with `pushDone`,
\* "no intervening push" for every pull in flight
Others(t, F, pushDone) ==
    [u \in Tasks |->
        IF u = t THEN run[u]
        ELSE [run[u] EXCEPT
                !.seq = IF FileOf(u) \in F THEN Undefined ELSE @,
                !.src = IF pushDone THEN NoFile ELSE @]]

Step(t, r, F, pushDone) == [Others(t, F, pushDone) EXCEPT ![t] = r]

Return(t, res) == last' = res

(* ------------------------ content-addressable store -------------------- *)

\* cas.writeFile(metadata, content): what the store may answer, and the
\* records it holds afterwards.  A record whose hash is already stored is a
\* duplicate: accepted without a new record, or rejected.
writeFile(h, c) ==
    IF \E r \in cas : r.synchash = h
    THEN {[cas |-> cas, res |-> "ok"], [cas |-> cas, res |-> "dup"],
          [cas |-> cas, res |-> "fail"]}
    ELSE {[cas |-> cas \cup {[synchash |-> h, content |-> c]}, res |-> "ok"],
          [cas |-> cas, res |-> "fail"]}

\* cas.readFile(fileInfo.id)
readFile(rec) == rec.content

(* ------------------------------ pull() --------------------------------- *)

\* the check left out
noServerHashUnchecked(f) == FALSE

\* if (!this.serverHash)
noServerHash(f) == serverHash(f) = Undefined

\* pull() up to its first await: the serverHash check, the getByHash calls
PullEnter(t, r) ==
    LET f == FileOf(t)
        g == GuidOf(f)
    IN  IF noServerHash(f)
        THEN /\ run' = Step(t, Idle, {}, FALSE)
             /\ Return(t, Result(t, r, "error", "ServerHashMissing", Undefined))
        ELSE /\ run' = Step(t, [r EXCEPT !.pc = "pull_lookup",
                                         !.h0 = serverHash(f),
                                         !.src = IF pushed[g].by \notin {f, "none"}
                                                 THEN pushed[g].bytes ELSE NoFile],
                            {}, FALSE)
             /\ UNCHANGED last

PullCall(t) ==
    /\ run[t].pc = "idle"
    /\ calls < MaxCalls
    /\ calls' = calls + 1
    /\ UNCHANGED provVars
    /\ PullEnter(t, [Idle EXCEPT !.op = "pull", !.called = "pull"])
    /\ UNCHANGED <<local, tfile, filehash, synctime, connected, hashes,
                   synctimes, cas, now, hashTx, timeTx, quiet, pushed>>

\* await this.getRemote() resolves; readFile is called on a record
PullLookup(t) ==
    LET r == run[t]
        info == getByHash(r.h0)
    IN  /\ r.pc = "pull_lookup"
        /\ UNCHANGED <<calls, provVars>>
        /\ IF info = NoRecord
           THEN /\ run' = Step(t, Idle, {}, FALSE)
                /\ Return(t, Result(t, r, "error", "ServerContentMissing", Undefined))
           ELSE /\ run' = Step(t, [r EXCEPT !.pc = "pull_read", !.h0 = Undefined,
                                            !.fileInfo = info],
                               {}, FALSE)
                /\ UNCHANGED last
        /\ UNCHANGED <<local, tfile, filehash, synctime, connected, hashes,
                       synctimes, cas, now, hashTx, timeTx, quiet, pushed>>

\* await cas.readFile(fileInfo.id) resolves; writeBinary is called
PullRead(t) ==
    LET r == run[t]
    IN  /\ r.pc = "pull_read"
        /\ UNCHANGED <<calls, provVars>>
        /\ run' = Step(t, [r EXCEPT !.pc = "pull_write",
                                    !.buf = readFile(r.fileInfo),
                                    !.casRead = TRUE], {}, FALSE)
        /\ UNCHANGED <<local, tfile, filehash, synctime, connected, hashes,
                       synctimes, cas, now, last, hashTx, timeTx, quiet, pushed>>

\* await vault.adapter.writeBinary(path, content) resolves
PullWrite(t) ==
    LET r == run[t]
        f == FileOf(t)
    IN  /\ r.pc = "pull_write"
        /\ UNCHANGED <<calls, provVars>>
        /\ local' = [local EXCEPT ![f] = r.buf]
        /\ quiet' = [quiet EXCEPT ![f] = IF local[f] = r.buf THEN @ ELSE Undefined]
        /\ run' = Step(t, [r EXCEPT !.pc = "pull_hash", !.written = r.buf],
                       IF local[f] = r.buf THEN {} ELSE {f}, FALSE)
        /\ UNCHANGED <<tfile, filehash, synctime, connected, hashes, synctimes,
                       cas, now, last, hashTx, timeTx, pushed>>

\* a pull() that also records the time of the pull as the file's sync time
PullHashStamped(t) ==
    LET r == run[t]
        f == FileOf(t)
    IN  /\ r.pc = "pull_hash"
        /\ UNCHANGED <<calls, provVars>>
        /\ filehash' = [filehash EXCEPT ![f] = generateHash(r.buf)]
        /\ tfile' = [tfile EXCEPT ![f] = local[f] # NoFile]
        /\ synctime' = [synctime EXCEPT ![f] = now]
        /\ run' = Step(t, Idle, {}, FALSE)
        /\ Return(t, Result(t, r, "ok", "none", Undefined))
        /\ UNCHANGED <<local, connected, hashes, synctimes, cas, now,
                       hashTx, timeTx, quiet, pushed>>

\* await generateHash(content) resolves; _tfile is looked up
PullHash(t) ==
    LET r == run[t]
        f == FileOf(t)
    IN  /\ r.pc = "pull_hash"
        /\ UNCHANGED <<calls, provVars>>
        /\ filehash' = [filehash EXCEPT ![f] = generateHash(r.buf)]
        /\ tfile' = [tfile EXCEPT ![f] = local[f] # NoFile]
        /\ run' = Step(t, Idle, {}, FALSE)
        /\ Return(t, Result(t, r, "ok", "none", Undefined))
        /\ UNCHANGED <<local, synctime, connected, hashes, synctimes, cas, now,
                       hashTx, timeTx, quiet, pushed>>

(* ------------------------------ push() --------------------------------- *)

\* push() up to its first await: getRemote() reads serverHash and asks the store
PushEnter(t, r) ==
    LET f == FileOf(t)
    IN  /\ run' = Step(t, [r EXCEPT !.pc = "push_lookup",
                                    !.h0 = serverHash(f),
                                    !.seq = quiet[f]], {}, FALSE)
        /\ UNCHANGED last

PushCall(t) ==
    /\ run[t].pc = "idle"
    /\ calls < MaxCalls
    /\ calls' = calls + 1
    /\ UNCHANGED provVars
    /\ PushEnter(t, [Idle EXCEPT !.op = "push", !.called = "push"])
    /\ UNCHANGED <<local, tfile, filehash, synctime, connected, hashes,
                   synctimes, cas, now, hashTx, timeTx, quiet, pushed>>

\* await this.getRemote() resolves to fileInfo; updateStats() is called, and
\* its this.tfile throws when the vault holds no file
PushLookup(t) ==
    LET r == run[t]
        f == FileOf(t)
        info == IF r.h0 = Undefined THEN NoRecord ELSE getByHash(r.h0)
    IN  /\ r.pc = "push_lookup"
        /\ UNCHANGED <<calls, provVars>>
        /\ IF local[f] = NoFile
           THEN /\ run' = Step(t, Idle, {}, FALSE)
                /\ Return(t, Result(t, r, "error", "LocalMaterializationMissing",
                                    Undefined))
           ELSE /\ run' = Step(t, [r EXCEPT !.pc = "push_stat_read",
                                            !.h0 = Undefined,
                                            !.fileInfo = info], {}, FALSE)
                /\ UNCHANGED last
        /\ UNCHANGED <<local, tfile, filehash, synctime, connected, hashes,
                       synctimes, cas, now, hashTx, timeTx, quiet, pushed>>

\* updateStats: await vault.readBinary(this.tfile) resolves
PushStatRead(t) ==
    LET r == run[t]
    IN  /\ r.pc = "push_stat_read"
        /\ UNCHANGED <<calls, provVars>>
        /\ run' = Step(t, [r EXCEPT !.pc = "push_stat_hash",
                                    !.buf = local[FileOf(t)]], {}, FALSE)
        /\ UNCHANGED <<local, tfile, filehash, synctime, connected, hashes,
                       synctimes, cas, now, last, hashTx, timeTx, quiet, pushed>>

\* updateStats: await generateHash(content) resolves into _filehash;
\* push() calls readBinary
PushStatHash(t) ==
    LET r == run[t]
        f == FileOf(t)
    IN  /\ r.pc = "push_stat_hash"
        /\ UNCHANGED <<calls, provVars>>
        /\ filehash' = [filehash EXCEPT ![f] = generateHash(r.buf)]
        /\ run' = Step(t, [r EXCEPT !.pc = "push_read", !.buf = NoFile], {}, FALSE)
        /\ UNCHANGED <<local, tfile, synctime, connected, hashes, synctimes,
                       cas, now, last, hashTx, timeTx, quiet, pushed>>

\* const content = await this.vault.readBinary(this.tfile)
PushRead(t) ==
    LET r == run[t]
    IN  /\ r.pc = "push_read"
        /\ UNCHANGED <<calls, provVars>>
        /\ run' = Step(t, [r EXCEPT !.pc = "push_hash",
                                    !.buf = local[FileOf(t)]], {}, FALSE)
        /\ UNCHANGED <<local, tfile, filehash, synctime, connected, hashes,
                       synctimes, cas, now, last, hashTx, timeTx, quiet, pushed>>

\* the hash set without the sync time
transactHashOnly(g, h, s, tx) ==
    [hashes |-> [hashes EXCEPT ![g] = h],
     synctimes |-> synctimes,
     hashTx |-> [hashTx EXCEPT ![g] = tx],
     timeTx |-> timeTx]

\* ydoc.transact(() => { hashes.set(guid, hash); synctimes.set(guid, synctime) })
transact(g, h, s, tx) ==
    [hashes |-> [hashes EXCEPT ![g] = h],
     synctimes |-> [synctimes EXCEPT ![g] = Time(s)],
     hashTx |-> [hashTx EXCEPT ![g] = tx],
     timeTx |-> [timeTx EXCEPT ![g] = tx]]

\* push() from `this.synctime = Date.now()` to `return hash`
PushFinish(t, r) ==
    LET f == FileOf(t)
        g == GuidOf(f)
        h == r.hash
        changed == hashes[g] # h
        m == IF changed
             THEN transact(g, h, now, [by |-> t, hash |-> h, time |-> now])
             ELSE [hashes |-> hashes, synctimes |-> synctimes,
                   hashTx |-> hashTx, timeTx |-> timeTx]
    IN  /\ synctime' = [synctime EXCEPT ![f] = now]
        /\ hashes' = m.hashes
        /\ synctimes' = m.synctimes
        /\ hashTx' = m.hashTx
        /\ timeTx' = m.timeTx
        /\ quiet' = [x \in Files |->
                        IF x = f
                        THEN (IF local[f] = r.buf THEN h ELSE Undefined)
                        ELSE (IF m.hashes # hashes \/ m.synctimes # synctimes
                              THEN Undefined ELSE quiet[x])]
        /\ pushed' = [pushed EXCEPT ![g] = [bytes |-> r.buf, by |-> f]]
        /\ run' = Step(t, Idle,
                       IF m.hashes # hashes \/ m.synctimes # synctimes
                       THEN Files ELSE {f}, TRUE)
        /\ Return(t, Result(t, r, "ok", "none", h))

\* const hash = await generateHash(content) resolves; either writeFile is
\* called or, the record being there, push() runs to its end
PushHash(t) ==
    LET r == run[t]
        h == generateHash(r.buf)
    IN  /\ r.pc = "push_hash"
        /\ UNCHANGED <<calls, provVars>>
        /\ IF r.fileInfo.synchash # h
           THEN /\ run' = Step(t, [r EXCEPT !.pc = "push_write", !.hash = h],
                               {}, FALSE)
                /\ UNCHANGED <<synctime, hashes, synctimes, last, hashTx,
                               timeTx, quiet, pushed>>
           ELSE PushFinish(t, [r EXCEPT !.hash = h])
        /\ UNCHANGED <<local, tfile, filehash, connected, cas, now>>

\* await cas.writeFile(...) settles; a rejection is caught and logged
PushWrite(t) ==
    LET r == run[t]
    IN  /\ r.pc = "push_write"
        /\ UNCHANGED <<calls, provVars>>
        /\ \E w \in writeFile(r.hash, r.buf) :
              /\ cas' = w.cas
              /\ PushFinish(t, [r EXCEPT !.wr = w.res])
        /\ UNCHANGED <<local, tfile, filehash, connected, now>>

(* ------------------------------ sync() --------------------------------- *)

\* the check left out
notConnectedUnchecked(f) == FALSE

\* if (!this.connected)
notConnected(f) == ~connected[f]

\* sync() up to its first await
SyncCall(t) ==
    LET f == FileOf(t)
        r == [Idle EXCEPT !.op = "sync"]
    IN  /\ run[t].pc = "idle"
        /\ calls < MaxCalls
        /\ calls' = calls + 1
        /\ UNCHANGED provVars
        /\ IF notConnected(f)
           THEN /\ run' = Step(t, Idle, {}, FALSE)
                /\ Return(t, Result(t, r, "ok", "none", Undefined))
           ELSE IF ~tfile[f]
           THEN PullEnter(t, [r EXCEPT !.called = "pull"])
           ELSE IF local[f] = NoFile
           THEN /\ run' = Step(t, Idle, {}, FALSE)
                /\ Return(t, Result(t, r, "error", "LocalMaterializationMissing",
                                    Undefined))
           ELSE /\ run' = Step(t, [r EXCEPT !.pc = "sync_read"], {}, FALSE)
                /\ UNCHANGED last
        /\ UNCHANGED <<local, tfile, filehash, synctime, connected, hashes,
                       synctimes, cas, now, hashTx, timeTx, quiet, pushed>>

\* getHash(true): updateStats' await vault.readBinary(this.tfile) resolves
SyncRead(t) ==
    LET r == run[t]
    IN  /\ r.pc = "sync_read"
        /\ UNCHANGED <<calls, provVars>>
        /\ run' = Step(t, [r EXCEPT !.pc = "sync_hash",
                                    !.buf = local[FileOf(t)]], {}, FALSE)
        /\ UNCHANGED <<local, tfile, filehash, synctime, connected, hashes,
                       synctimes, cas, now, last, hashTx, timeTx, quiet, pushed>>

\* getHash(true) resolves with _filehash set; isStale && shouldPull decides
SyncHash(t) ==
    LET r == run[t]
        f == FileOf(t)
        h == generateHash(r.buf)
        r1 == [r EXCEPT !.buf = NoFile]
    IN  /\ r.pc = "sync_hash"
        /\ UNCHANGED <<calls, provVars>>
        /\ filehash' = [filehash EXCEPT ![f] = h]
        /\ IF StaleWith(h, f) /\ shouldPull(f)
           THEN PullEnter(t, [r1 EXCEPT !.called = "pull"])
           ELSE PushEnter(t, [r1 EXCEPT !.called = "push"])
        /\ UNCHANGED <<local, tfile, synctime, connected, hashes, synctimes,
                       cas, now, hashTx, timeTx, quiet, pushed>>

(* ----------------------- the world around a file ----------------------- *)

\* the user (or another plugin) changes the file's bytes in the vault
LocalWrite(f, c) ==
    /\ local[f] \notin {NoFile, c}
    /\ UNCHANGED <<calls, provVars>>
    /\ local' = [local EXCEPT ![f] = c]
    /\ quiet' = [quiet EXCEPT ![f] = Undefined]
    /\ run' = Others("none", {f}, FALSE)
    /\ UNCHANGED <<tfile, filehash, synctime, connected, hashes, synctimes,
                   cas, now, last, hashTx, timeTx, pushed>>

\* time passes
Tick ==
    /\ now < MaxClock
    /\ now' = now + 1
    /\ UNCHANGED <<calls, provVars>>
    /\ UNCHANGED <<local, tfile, filehash, synctime, connected, hashes,
                   synctimes, cas, run, last, hashTx, timeTx, quiet, pushed>>

\* SyncFile.disconnect()
Disconnect(f) ==
    /\ calls < MaxCalls
    /\ calls' = calls + 1
    /\ UNCHANGED provVars
    /\ connected' = [connected EXCEPT ![f] = FALSE]
    /\ UNCHANGED <<local, tfile, filehash, synctime, hashes, synctimes, cas,
                   now, run, last, hashTx, timeTx, quiet, pushed>>

(* ======================================================================= *)
(*                              HasProvider                                *)
(* ======================================================================= *)

\* enum readyState
CONNECTING == 0

OPEN == 1

CLOSING == 2

CLOSED == 3

PROVIDER_MAX_ERRORS == 3

\* _provider.ws = null
Null == <<>>

Socket(readyState) == <<readyState>>

\* the resource addresses a handle is bound to
Addresses ==
    {[kind |-> "S3RemoteFolder", relayId |-> "r1", id |-> "f1"],
     [kind |-> "S3RemoteDocument", relayId |-> "r1", id |-> "d1"],
     [kind |-> "S3Folder", relayId |-> "", id |-> "f1"]}

\* ({ token: "", url: "", expiryTime: 0 } as ClientToken)
EmptyToken == [url |-> "", token |-> ""]

\* the tokens the token store issues
IssuedTokens == {[url |-> "wss://y1", token |-> "t1"],
                 [url |-> "wss://y1", token |-> "t2"]}

Tokens == {EmptyToken} \cup IssuedTokens

s3rnToYsweetDocId(entity) ==
    IF entity.kind = "S3RemoteDocument" THEN <<entity.relayId, "-", entity.id>>
    ELSE IF entity.kind = "S3RemoteFolder" THEN <<entity.relayId, "-", entity.id>>
    ELSE <<"-">>

\* makeProvider(clientToken, s3rn, ...).url: the transport's URL for the
\* token's server, the document id and the token parameter; no URL without
\* a server
ProviderUrl(tok, entity) ==
    IF tok.url = "" THEN <<>>
    ELSE <<tok.url, s3rnToYsweetDocId(entity), tok.token>>

\* this._provider.url && ...
UrlPresent(u) == u # <<>>

\* x || d for a number x or undefined
OrElse(x, d) == IF x = <<>> \/ x = <<0>> THEN d ELSE x[1]

readyStateMap(n) ==
    CASE n = 3 -> "disconnected"
      [] n = 2 -> "disconnected"
      [] n = 1 -> "connected"
      [] n = 0 -> "connecting"
      [] OTHER -> "undefined"

\* get state(): status and intent
status == readyStateMap(OrElse(ws, CLOSED))

intent == IF shouldConnect THEN "connected" ELSE "disconnected"

\* get connected()
providerConnected == status = "connected"

\* WebSocket.close()
Close(w) == IF w \in {Socket(CONNECTING), Socket(OPEN)} THEN Socket(CLOSING) ELSE w

\* a listener that follows the handle's intent both ways
NotifiedBothWays(sc) == [f \in Files |-> sc]

\* notifyListeners() reaching each SyncFile's folder status listener, after
\* the handle's shouldConnect has become sc
Notified(sc) == IF sc THEN connected ELSE [f \in Files |-> FALSE]

\* a refresh that keeps the error count
refreshProviderKeepCount(tok, entity) ==
    LET newUrl == ProviderUrl(tok, entity)
    IN  IF url # newUrl
        THEN [url |-> newUrl, errors |-> wsUnsuccessfulReconnects, ws |-> Close(ws)]
        ELSE [url |-> url, errors |-> wsUnsuccessfulReconnects, ws |-> ws]

\* refreshProvider(clientToken) with this.s3rn = entity: the URL, error count
\* and socket it leaves
refreshProvider(tok, entity) ==
    LET newUrl == ProviderUrl(tok, entity)
    IN  IF url # newUrl
        THEN [url |-> newUrl, errors |-> 0, ws |-> Close(ws)]
        ELSE [url |-> url, errors |-> wsUnsuccessfulReconnects, ws |-> ws]

\* the state getter's value for a socket w and shouldConnect sc
stateOf(w, sc) ==
    [status |-> readyStateMap(OrElse(w, CLOSED)),
     intent |-> IF sc THEN "connected" ELSE "disconnected"]

\* no listener was called
NoSnapshot == [status |-> "none", intent |-> "none"]

\* a rejection that nothing catches
Uncaught(outcome) == IF outcome = "throws" THEN "rejected" ELSE outcome

\* .catch((e) => { return false; })
Caught(outcome) == IF outcome = "throws" THEN "false" ELSE outcome

\* the record of an operation called in the current state: whether the handle
\* was at rest, the snapshot its listeners got, and what connect() settled with
Note(op, snap, result) ==
    [op |-> op, rest |-> (~shouldConnect /\ ws = Null), snap |-> snap,
     result |-> result, file |-> "none"]

\* the same record when the operation settles a file's connect() with
\* fileResult
FileNote(op, snap, result, fileResult) ==
    [Note(op, snap, result) EXCEPT !.file = fileResult]

NoNote ==
    [op |-> "none", rest |-> TRUE, snap |-> NoSnapshot, result |-> "none",
     file |-> "none"]

syncRest == <<local, tfile, filehash, synctime, hashes, synctimes, cas, now,
              run, last, hashTx, timeTx, quiet, pushed, calls>>

ProviderInitAt(tok, entity) ==
    /\ s3rn = entity
    /\ clientToken = tok
    /\ url = ProviderUrl(tok, entity)
    /\ shouldConnect = FALSE
    /\ ws = Null
    /\ wsUnsuccessfulReconnects = 0
    /\ pendingAuto = 0
    /\ pendingUser = 0
    /\ tokenCallback = FALSE
    /\ pendingFile = {}
    /\ note = NoNote
    /\ errsSinceOpen = 0
    /\ straysSinceOpen = 0
    /\ errsSinceReset = 0
    /\ autoRetries = 0

ProviderInit == \E tok \in Tokens, entity \in Addresses : ProviderInitAt(tok, entity)

\* the observers after a refresh
Observe(r) ==
    /\ errsSinceReset' = IF r.url # url THEN 0 ELSE errsSinceReset
    /\ autoRetries' = IF r.url # url THEN 0 ELSE autoRetries
    /\ UNCHANGED <<errsSinceOpen, straysSinceOpen>>

\* connect() up to getProviderToken()
ConnectCall ==
    /\ IF providerConnected
       THEN /\ UNCHANGED <<pendingUser, tokenCallback>>
            /\ note' = Note("connect", NoSnapshot, Caught("true"))
       ELSE /\ pendingUser < MaxPending
            /\ pendingUser' = pendingUser + 1
            /\ tokenCallback' = TRUE
            /\ note' = Note("connect", NoSnapshot, "none")
    /\ UNCHANGED <<s3rn, clientToken, url, shouldConnect, ws,
                   wsUnsuccessfulReconnects, pendingAuto, pendingFile,
                   errsSinceOpen, straysSinceOpen, errsSinceReset, autoRetries,
                   connected, syncRest>>

\* connect()'s then, on the handle: refreshProvider, _provider.connect(),
\* notifyListeners, return true
ConnectThenNoting(tok, fileResult) ==
    LET r == refreshProvider(tok, s3rn)
        w == IF r.ws = Null THEN Socket(CONNECTING) ELSE r.ws
    IN  /\ clientToken' = tok
        /\ url' = r.url
        /\ wsUnsuccessfulReconnects' = r.errors
        /\ shouldConnect' = TRUE
        /\ ws' = w
        /\ note' = FileNote("connected", stateOf(w, TRUE), Caught("true"),
                            fileResult)
        /\ Observe(r)
        /\ UNCHANGED <<s3rn, tokenCallback, syncRest>>

\* connect()'s then of a connect() that no file waits for
ConnectThen(tok) == ConnectThenNoting(tok, "none")

\* connect()'s then as the files see it
Connected(tok) ==
    /\ ConnectThen(tok)
    /\ connected' = Notified(TRUE)

\* connect()'s then when _provider.connect() throws: the transport has taken
\* the new shouldConnect and fails to set a socket up; no listener is called
\* and the catch returns false
ConnectThrewNoting(tok, fileResult) ==
    LET r == refreshProvider(tok, s3rn)
    IN  /\ r.ws = Null
        /\ clientToken' = tok
        /\ url' = r.url
        /\ wsUnsuccessfulReconnects' = r.errors
        /\ shouldConnect' = TRUE
        /\ ws' = Null
        /\ note' = FileNote("connect_failed", NoSnapshot, Caught("throws"),
                            fileResult)
        /\ Observe(r)
        /\ UNCHANGED <<s3rn, tokenCallback, syncRest>>

\* the same, of a connect() that no file waits for
ConnectThrew(tok) == ConnectThrewNoting(tok, "none")

\* the token of a caller's connect() arrives
UserTokenResolve(tok) ==
    /\ pendingUser > 0
    /\ pendingUser' = pendingUser - 1
    /\ UNCHANGED <<pendingAuto, pendingFile>>
    /\ Connected(tok)

\* the token of the error handler's connect() arrives
AutoTokenResolve(tok) ==
    /\ pendingAuto > 0
    /\ pendingAuto' = pendingAuto - 1
    /\ UNCHANGED <<pendingUser, pendingFile>>
    /\ Connected(tok)

\* the token arrives and the transport's connect throws
ConnectThrows(tok) ==
    /\ \/ pendingUser > 0 /\ pendingUser' = pendingUser - 1 /\ UNCHANGED pendingAuto
       \/ pendingAuto > 0 /\ pendingAuto' = pendingAuto - 1 /\ UNCHANGED pendingUser
    /\ UNCHANGED <<pendingFile, connected>>
    /\ ConnectThrew(tok)

\* getProviderToken() rejects or times out: connect() resolves false
TokenFail ==
    /\ \/ pendingUser > 0 /\ pendingUser' = pendingUser - 1 /\ UNCHANGED pendingAuto
       \/ pendingAuto > 0 /\ pendingAuto' = pendingAuto - 1 /\ UNCHANGED pendingUser
    /\ note' = Note("connect_failed", NoSnapshot, Caught("throws"))
    /\ UNCHANGED <<s3rn, clientToken, url, shouldConnect, ws,
                   wsUnsuccessfulReconnects, tokenCallback, pendingFile,
                   errsSinceOpen, straysSinceOpen, errsSinceReset, autoRetries,
                   connected, syncRest>>

\* the token store calls refreshProvider with a refreshed token
TokenRefresh(tok) ==
    LET r == refreshProvider(tok, s3rn)
    IN  /\ tokenCallback
        /\ clientToken' = tok
        /\ url' = r.url
        /\ wsUnsuccessfulReconnects' = r.errors
        /\ ws' = r.ws
        /\ note' = Note("refresh", NoSnapshot, "none")
        /\ Observe(r)
        /\ UNCHANGED <<s3rn, shouldConnect, pendingAuto, pendingUser,
                       tokenCallback, pendingFile, connected, syncRest>>

\* set s3rn(value)
SetS3rn(entity) ==
    LET r == refreshProvider(clientToken, entity)
    IN  /\ entity # s3rn
        /\ s3rn' = entity
        /\ url' = r.url
        /\ wsUnsuccessfulReconnects' = r.errors
        /\ ws' = r.ws
        /\ note' = Note("refresh", NoSnapshot, "none")
        /\ Observe(r)
        /\ UNCHANGED <<clientToken, shouldConnect, pendingAuto, pendingUser,
                       tokenCallback, pendingFile, connected, syncRest>>

\* a disconnect() that closes the socket and keeps it
ProviderDisconnectKeepSocket ==
    /\ shouldConnect' = FALSE
    /\ ws' = Close(ws)
    /\ connected' = Notified(FALSE)
    /\ note' = Note("disconnect", stateOf(Close(ws), FALSE), "none")
    /\ UNCHANGED <<s3rn, clientToken, url, wsUnsuccessfulReconnects,
                   pendingAuto, pendingUser, tokenCallback, pendingFile,
                   errsSinceOpen, straysSinceOpen, errsSinceReset, autoRetries,
                   syncRest>>

\* disconnect()
ProviderDisconnect ==
    /\ shouldConnect' = FALSE
    /\ ws' = Null
    /\ connected' = Notified(FALSE)
    /\ note' = Note("disconnect", stateOf(Null, FALSE), "none")
    /\ UNCHANGED <<s3rn, clientToken, url, wsUnsuccessfulReconnects,
                   pendingAuto, pendingUser, tokenCallback, pendingFile,
                   errsSinceOpen, straysSinceOpen, errsSinceReset, autoRetries,
                   syncRest>>

\* a handler's test made after its disconnect()
shouldReconnectAfterDisconnect == FALSE

\* a handler's test that leaves the error count out
shouldReconnectUncounted ==
    /\ UrlPresent(url)
    /\ shouldConnect

\* the handler's test, made before it disconnects
shouldReconnect ==
    /\ UrlPresent(url)
    /\ shouldConnect
    /\ wsUnsuccessfulReconnects < PROVIDER_MAX_ERRORS

\* the transport emits connection-error: the constructor's handler runs
\* (disconnect(), then connect() up to getProviderToken()), and the
\* transport counts the failure
ConnectionError ==
    /\ errsSinceOpen + straysSinceOpen < MaxErrorEvents
    /\ shouldReconnect => pendingAuto < MaxPending
    /\ shouldConnect' = FALSE
    /\ ws' = Null
    /\ connected' = Notified(FALSE)
    /\ note' = Note("error", stateOf(Null, FALSE), "none")
    /\ pendingAuto' = IF shouldReconnect THEN pendingAuto + 1 ELSE pendingAuto
    /\ tokenCallback' = (tokenCallback \/ shouldReconnect)
    /\ wsUnsuccessfulReconnects' = wsUnsuccessfulReconnects + 1
    /\ errsSinceOpen' = IF shouldConnect /\ UrlPresent(url)
                        THEN errsSinceOpen + 1 ELSE errsSinceOpen
    /\ straysSinceOpen' = IF shouldConnect /\ UrlPresent(url)
                          THEN straysSinceOpen ELSE straysSinceOpen + 1
    /\ errsSinceReset' = errsSinceReset + 1
    /\ autoRetries' = IF shouldReconnect THEN autoRetries + 1 ELSE autoRetries
    /\ UNCHANGED <<s3rn, clientToken, url, pendingUser, pendingFile, syncRest>>

\* the socket opens: the transport clears its failure count and emits status
WsOpen ==
    /\ ws = Socket(CONNECTING)
    /\ ws' = Socket(OPEN)
    /\ wsUnsuccessfulReconnects' = 0
    /\ errsSinceOpen' = 0
    /\ straysSinceOpen' = 0
    /\ errsSinceReset' = 0
    /\ autoRetries' = 0
    /\ connected' = Notified(shouldConnect)
    /\ note' = Note("open", stateOf(Socket(OPEN), shouldConnect), "none")
    /\ UNCHANGED <<s3rn, clientToken, url, shouldConnect, pendingAuto,
                   pendingUser, tokenCallback, pendingFile, syncRest>>

\* a socket closed by refreshProvider is gone: the transport drops it and,
\* while shouldConnect holds, opens a new one to the current URL
WsClosed ==
    LET w == IF shouldConnect THEN Socket(CONNECTING) ELSE Null
    IN  /\ ws = Socket(CLOSING)
        /\ ws' = w
        /\ connected' = Notified(shouldConnect)
        /\ note' = Note("closed", stateOf(w, shouldConnect), "none")
        /\ UNCHANGED <<s3rn, clientToken, url, shouldConnect,
                       wsUnsuccessfulReconnects, pendingAuto, pendingUser,
                       tokenCallback, pendingFile, errsSinceOpen,
                       straysSinceOpen, errsSinceReset, autoRetries, syncRest>>

(* ------------------- SyncFile.connect() on the handle ------------------ *)

\* SyncFile.connect() up to the folder's connect(), the folder's
\* shouldConnect being folderShouldConnect: false for a local-only folder or
\* when the folder's shouldConnect is off
FileConnect(f, folderShouldConnect) ==
    /\ f \notin pendingFile
    /\ IF s3rn.kind = "S3Folder" \/ ~folderShouldConnect
       THEN /\ note' = FileNote("file_connect", NoSnapshot, "none", "false")
            /\ UNCHANGED <<connected, pendingFile, tokenCallback>>
       ELSE IF providerConnected
       THEN /\ connected' = [connected EXCEPT ![f] = TRUE]
            /\ note' = FileNote("connect", NoSnapshot, Caught("true"), "true")
            /\ UNCHANGED <<pendingFile, tokenCallback>>
       ELSE /\ pendingFile' = pendingFile \cup {f}
            /\ tokenCallback' = TRUE
            /\ note' = Note("connect", NoSnapshot, "none")
            /\ UNCHANGED connected
    /\ UNCHANGED <<s3rn, clientToken, url, shouldConnect, ws,
                   wsUnsuccessfulReconnects, pendingAuto, pendingUser,
                   errsSinceOpen, straysSinceOpen, errsSinceReset, autoRetries,
                   syncRest>>

\* SyncFile.connect() is called
FileConnectCall(f) ==
    \E folderShouldConnect \in BOOLEAN : FileConnect(f, folderShouldConnect)

\* the folder's connect() resolves true: this.connected = true
FileTokenResolve(f, tok) ==
    /\ f \in pendingFile
    /\ pendingFile' = pendingFile \ {f}
    /\ UNCHANGED <<pendingAuto, pendingUser>>
    /\ ConnectThenNoting(tok, "true")
    /\ connected' = [Notified(TRUE) EXCEPT ![f] = TRUE]

\* a SyncFile.connect() whose flag and result are what the folder's
\* connect() resolved with
FileTokenFailAsFolder(f) ==
    /\ f \in pendingFile
    /\ pendingFile' = pendingFile \ {f}
    /\ connected' = [connected EXCEPT ![f] = FALSE]
    /\ note' = FileNote("connect_failed", NoSnapshot, Caught("throws"), "false")
    /\ UNCHANGED <<s3rn, clientToken, url, shouldConnect, ws,
                   wsUnsuccessfulReconnects, pendingAuto, pendingUser,
                   tokenCallback, errsSinceOpen, straysSinceOpen,
                   errsSinceReset, autoRetries, syncRest>>

\* the folder's connect() resolves false, its token request having failed:
\* this.connected = true
FileTokenFail(f) ==
    /\ f \in pendingFile
    /\ pendingFile' = pendingFile \ {f}
    /\ connected' = [connected EXCEPT ![f] = TRUE]
    /\ note' = FileNote("connect_failed", NoSnapshot, Caught("throws"), "true")
    /\ UNCHANGED <<s3rn, clientToken, url, shouldConnect, ws,
                   wsUnsuccessfulReconnects, pendingAuto, pendingUser,
                   tokenCallback, errsSinceOpen, straysSinceOpen,
                   errsSinceReset, autoRetries, syncRest>>

\* the folder's connect() resolves false, the transport's connect having
\* thrown: this.connected = true
FileConnectThrows(f, tok) ==
    /\ f \in pendingFile
    /\ pendingFile' = pendingFile \ {f}
    /\ UNCHANGED <<pendingAuto, pendingUser>>
    /\ ConnectThrewNoting(tok, "true")
    /\ connected' = [connected EXCEPT ![f] = TRUE]

(* ======================================================================= *)
(*                            specifications                               *)
(* ======================================================================= *)

Init == SyncInit /\ ProviderInit

NextSync ==
    \/ \E t \in SyncTasks :
          \/ SyncCall(t) \/ SyncRead(t) \/ SyncHash(t)
          \/ PullCall(t) \/ PullLookup(t) \/ PullRead(t) \/ PullWrite(t)
          \/ PullHash(t)
          \/ PushCall(t) \/ PushLookup(t) \/ PushStatRead(t)
          \/ PushStatHash(t) \/ PushRead(t) \/ PushHash(t) \/ PushWrite(t)
    \/ \E f \in Files, c \in Contents : LocalWrite(f, c)
    \/ \E f \in Files : Disconnect(f)
    \/ Tick

NextProvider ==
    \/ ConnectCall
    \/ \E tok \in IssuedTokens :
          \/ UserTokenResolve(tok) \/ AutoTokenResolve(tok) \/ TokenRefresh(tok)
          \/ ConnectThrows(tok)
    \/ TokenFail
    \/ \E f \in Reconnecting :
          \/ FileConnectCall(f) \/ FileTokenFail(f)
          \/ \E tok \in IssuedTokens :
                \/ FileTokenResolve(f, tok) \/ FileConnectThrows(f, tok)
    \/ \E entity \in Addresses : SetS3rn(entity)
    \/ ProviderDisconnect
    \/ ConnectionError
    \/ WsOpen
    \/ WsClosed

InitSync ==
    /\ SyncInit
    /\ ProviderInitAt(EmptyToken, [kind |-> "S3Folder", relayId |-> "", id |-> "f1"])

\* the synchronization engine of two peers, the connection handle at rest
SpecSync == InitSync /\ [][NextSync]_vars

\* the callers come back: the count of calls starts anew
Again ==
    /\ calls = MaxCalls
    /\ calls' = 0
    /\ UNCHANGED <<local, tfile, filehash, synctime, connected, hashes,
                   synctimes, cas, now, run, last, hashTx, timeTx, quiet,
                   pushed, provVars>>

\* one step of activation t started by sync()
SyncStep(t) ==
    \/ SyncCall(t) \/ SyncRead(t) \/ SyncHash(t)
    \/ PullLookup(t) \/ PullRead(t) \/ PullWrite(t) \/ PullHash(t)
    \/ PushLookup(t) \/ PushStatRead(t) \/ PushStatHash(t) \/ PushRead(t)
    \/ PushHash(t) \/ PushWrite(t)

\* two peers with different bytes for the guid
InitConverge ==
    /\ InitSync
    /\ local = [f \in Files |-> IF f = "A" THEN "x" ELSE "y"]

\* nobody edits; both peers call sync() again and again
NextConverge ==
    \/ \E t \in SyncTasks :
          \/ SyncCall(t) \/ SyncRead(t) \/ SyncHash(t)
          \/ PullLookup(t) \/ PullRead(t) \/ PullWrite(t) \/ PullHash(t)
          \/ PushLookup(t) \/ PushStatRead(t) \/ PushStatHash(t)
          \/ PushRead(t) \/ PushHash(t) \/ PushWrite(t)
    \/ Tick
    \/ Again

\* every await settles, each peer's sync() is called again and again, and
\* time passes
SpecConverge ==
    /\ InitConverge
    /\ [][NextConverge]_vars
    /\ \A t \in SyncTasks : SF_vars(SyncStep(t))
    /\ WF_vars(Tick)
    /\ WF_vars(Again)

InitProvider ==
    /\ Init
    /\ local = [f \in Files |-> "x"]

\* the connection handle and the files listening to it, no sync in flight
SpecProvider == InitProvider /\ [][NextProvider]_vars

(* ======================================================================= *)
(*                                claims                                   *)
(* ======================================================================= *)

\* the handle at rest: intent disconnected, no socket, no connect() waiting
\* for its token
Quiescent ==
    /\ ~shouldConnect
    /\ ws = Null
    /\ pendingAuto = 0
    /\ pendingUser = 0
    /\ pendingFile = {}

\* connect() is called on the handle, by a caller or by a file's connect()
ExplicitConnect == ConnectCall \/ \E f \in Reconnecting : FileConnectCall(f)

\* the connection-error handler called connect()
Retried == pendingAuto' = pendingAuto + 1

\* C1 as amended: a connection-error event makes the handler call connect()
\* exactly when intent is connected, the URL is present and fewer than 3
\* errors have come since the socket last opened or refreshProvider last
\* changed the URL; so at most 3 errors in such a row are retried and the 4th
\* is not, and a handle at rest stays at rest until connect() is called.
C1_BoundedReconnect ==
    /\ [](autoRetries <= PROVIDER_MAX_ERRORS)
    /\ [][ConnectionError =>
            (Retried <=> /\ shouldConnect
                         /\ UrlPresent(url)
                         /\ errsSinceReset < PROVIDER_MAX_ERRORS)]_vars
    /\ [][Quiescent /\ ~ExplicitConnect => Quiescent']_vars

\* four errors in a row, none followed by an open socket or a new URL: three
\* were retried, and the handle is at rest
C1_Witness ==
    /\ errsSinceReset = PROVIDER_MAX_ERRORS + 1
    /\ errsSinceOpen = PROVIDER_MAX_ERRORS + 1
    /\ straysSinceOpen = 0
    /\ autoRetries = PROVIDER_MAX_ERRORS
    /\ Quiescent

\* C1 as stated: of the connection-error events that come in a row with
\* intent connected and the URL present, with the socket never open in
\* between, the first 3 are retried and no later one is.
C1_RetryBoundSinceOpen ==
    [][ConnectionError /\ shouldConnect /\ UrlPresent(url)
                       /\ straysSinceOpen = 0 =>
          (Retried <=> errsSinceOpen < PROVIDER_MAX_ERRORS)]_vars

\* what refreshProvider leaves when the derived URL is newUrl
HotSwap(newUrl) ==
    IF newUrl # url
    THEN /\ url' = newUrl
         /\ wsUnsuccessfulReconnects' = 0
         /\ ws # Null => ws' \in {Socket(CLOSING), Socket(CLOSED)}
         /\ ws = Null => ws' = Null
    ELSE UNCHANGED <<url, ws, wsUnsuccessfulReconnects>>

\* C10: refreshProvider, called with a token or through the address setter,
\* with a derived URL that differs from the transport's URL sets the new
\* URL, sets the error count to 0 and closes the socket there is; with the
\* same derived URL it leaves the URL, the error count and the socket alone.
C10_TokenHotSwap ==
    [][/\ \A tok \in IssuedTokens :
             TokenRefresh(tok) => HotSwap(ProviderUrl(tok, s3rn))
       /\ \A entity \in Addresses :
             SetS3rn(entity) => HotSwap(ProviderUrl(clientToken, entity))]_vars

\* a socket being closed by a refresh that swapped the URL and cleared the
\* count of the errors that came since the socket last opened
C10_Witness ==
    /\ ws = Socket(CLOSING)
    /\ errsSinceOpen > 0
    /\ wsUnsuccessfulReconnects = 0
    /\ url = ProviderUrl(clientToken, s3rn)

\* the sync time the shared map holds for the file's guid, 0 when absent
RemoteSyncTime(f) ==
    IF synctimes[GuidOf(f)] = Undefined THEN 0 ELSE synctimes[GuidOf(f)][2]

\* the store holds a metadata record for the file's current server hash
RemoteMetadataPresent(f) ==
    /\ hashes[GuidOf(f)] # Undefined
    /\ \E r \in cas : r.synchash = hashes[GuidOf(f)]

\* C2: for every tracked file, shouldPull is (T_r > T_l) and shouldPush is
\* (T_r < T_l) or the store has no metadata record for the server hash.
C2_PullPushDerivation ==
    \A f \in Files :
        /\ shouldPull(f) = (RemoteSyncTime(f) > synctime[f])
        /\ shouldPush(f) = (RemoteSyncTime(f) < synctime[f]
                              \/ ~RemoteMetadataPresent(f))

\* C3 as amended: isStale is true exactly when localHash and serverHash
\* differ; two equal hash strings are not stale, and neither is a file with
\* no cached hash and no server hash (undefined equals undefined).
C3_Staleness ==
    \A f \in Files :
        /\ filehash[f] # serverHash(f) => isStale(f)
        /\ (filehash[f] \in Hashes /\ filehash[f] = serverHash(f)) => ~isStale(f)
        /\ (filehash[f] = Undefined /\ serverHash(f) = Undefined) => ~isStale(f)

\* a file in sync after a push beside a file whose hashes differ
C3_Witness ==
    /\ \E f \in Files : filehash[f] \in Hashes /\ filehash[f] = serverHash(f)
    /\ \E f \in Files : filehash[f] # serverHash(f)

\* C3 as stated: differing hashes are stale, equal hash strings are not, and
\* a file with neither a cached hash nor a server hash reports stale.
C3_FreshFileIsStale ==
    \A f \in Files :
        /\ filehash[f] # serverHash(f) => isStale(f)
        /\ (filehash[f] \in Hashes /\ filehash[f] = serverHash(f)) => ~isStale(f)
        /\ (filehash[f] = Undefined /\ serverHash(f) = Undefined) => isStale(f)

\* a step in which activation t's push() returns
PushReturns(t) ==
    /\ run[t].pc \in {"push_hash", "push_write"}
    /\ run'[t].pc = "idle"
    /\ last'.task = t /\ last'.called = "push" /\ last'.status = "ok"

\* C4: for every guid, hashes[guid] and synctimes[guid] are both absent or
\* were both written by one push() transaction, and only the step in which a
\* push() returns changes either map, changing both entries together.
C4_MetadataAtomicity ==
    /\ [](\A g \in Guids :
            /\ (hashes[g] = Undefined) = (synctimes[g] = Undefined)
            /\ hashTx[g] = timeTx[g]
            /\ hashTx[g].by # "none" =>
                  /\ hashes[g] = hashTx[g].hash
                  /\ synctimes[g] = Time(hashTx[g].time))
    /\ [][(hashes' # hashes \/ synctimes' # synctimes) =>
            \E t \in Tasks :
                /\ PushReturns(t)
                /\ \A g \in Guids :
                      (hashes'[g] # hashes[g] \/ synctimes'[g] # synctimes[g]) =>
                          /\ g = GuidOf(FileOf(t))
                          /\ hashes'[g] = last'.hash
                          /\ synctimes'[g] = Time(synctime'[FileOf(t)])
                          /\ hashTx'[g] = timeTx'[g]
                          /\ hashTx'[g] # hashTx[g]]_vars

\* a second transaction has replaced the guid's hash and sync time
C4_Witness ==
    \E g \in Guids :
        /\ hashes[g] # Undefined
        /\ hashTx[g].time = MaxClock
        /\ last.called = "push" /\ last.hash = hashes[g]
        /\ \E r \in cas : r.synchash # hashes[g]

\* C5: a push() that follows a completed push() of the same file, with the
\* local bytes and the shared maps unchanged in between, returns the same
\* hash, calls no CAS write and changes neither the store nor the maps.
C5_IdempotentPush ==
    [][\A t \in Tasks :
          (PushReturns(t) /\ run[t].seq # Undefined) =>
              /\ last'.hash = run[t].seq
              /\ last'.wr = "none"
              /\ cas' = cas
              /\ hashes' = hashes /\ synctimes' = synctimes]_vars

\* C6: a pull() that starts after another file object's push() of bytes B
\* completed, with no push completing meanwhile, writes B to its local
\* store and returns with localHash equal to hashes[guid].
C6_RoundTrip ==
    [][\A t \in Tasks :
          run[t].src # NoFile =>
              /\ (run[t].pc = "pull_write" /\ run'[t].pc = "pull_hash") =>
                    local'[FileOf(t)] = run[t].src
              /\ (run[t].pc # "idle" /\ run'[t].pc = "idle") =>
                    /\ last'.task = t /\ last'.status = "ok"
                    /\ run[t].written = run[t].src
                    /\ filehash'[FileOf(t)] = hashes'[GuidOf(FileOf(t))]]_vars

\* C7: a push() whose CAS write failed, other than as a duplicate, does not
\* return a hash.
C7_WriteFailurePropagates ==
    ~(last.called = "push" /\ last.status = "ok" /\ last.wr = "fail")

\* a step in which activation t calls pull(), directly or from sync()
PullStarts(t) ==
    /\ PullCall(t) \/ SyncCall(t) \/ SyncHash(t)
    /\ \/ run'[t].called = "pull"
       \/ run'[t].pc = "idle" /\ last'.task = t /\ last'.called = "pull"

\* a failing pull() leaves the store, the local bytes and localHash alone,
\* and has read no bytes from the store
PullFailureFrame(t) ==
    /\ run'[t].pc = "idle"
    /\ last'.task = t /\ last'.status = "error"
    /\ ~run[t].casRead
    /\ UNCHANGED <<cas, local, filehash, tfile, hashes, synctimes, synctime>>

\* C8: pull() fails with ServerHashMissing when hashes has no entry for the
\* guid, and with ServerContentMissing when the store has no record for the
\* hash; either way it reads no bytes, writes nothing locally and leaves
\* localHash unchanged.
C8_PullMissingRemote ==
    [][\A t \in Tasks :
          /\ (PullStarts(t) /\ hashes[GuidOf(FileOf(t))] = Undefined) =>
                (last'.err = "ServerHashMissing" /\ PullFailureFrame(t))
          /\ (PullLookup(t) /\ ~\E r \in cas : r.synchash = run[t].h0) =>
                (last'.err = "ServerContentMissing" /\ PullFailureFrame(t))]_vars

\* a pull() has failed on a hash the store has no record of
C8_Witness ==
    /\ last.called = "pull" /\ last.err = "ServerContentMissing"
    /\ hashes[GuidOf(FileOf(last.task))] # Undefined

\* C9: sync() on a file whose connected flag is false returns at once without
\* error, having called neither the store nor the byte store and having
\* changed neither the file's fields nor the shared maps.
C9_DisconnectedNoOp ==
    [][\A t \in Tasks :
          (SyncCall(t) /\ ~connected[FileOf(t)]) =>
              /\ run'[t].pc = "idle"
              /\ last' = [task |-> t, op |-> "sync", called |-> "none",
                          status |-> "ok", err |-> "none", hash |-> Undefined,
                          wr |-> "none"]
              /\ UNCHANGED <<cas, local, filehash, tfile, synctime, hashes,
                             synctimes, connected>>]_vars

\* sync() has returned from a disconnected file that holds local bytes
C9_Witness ==
    /\ last.op = "sync" /\ last.called = "none" /\ last.status = "ok"
    /\ ~connected[FileOf(last.task)]
    /\ local[FileOf(last.task)] # NoFile

\* a step in which a connect() of the handle gets its token and the
\* transport connects
ConnectSucceeds ==
    \E tok \in IssuedTokens :
       \/ UserTokenResolve(tok)
       \/ AutoTokenResolve(tok)
       \/ \E f \in Reconnecting : FileTokenResolve(f, tok)

\* a step in which a connect() of the handle loses its token request or the
\* transport's connect throws
ConnectFails ==
    \/ TokenFail
    \/ \E f \in Reconnecting : FileTokenFail(f)
    \/ \E tok \in IssuedTokens : ConnectThrows(tok)
    \/ \E f \in Reconnecting, tok \in IssuedTokens : FileConnectThrows(f, tok)

\* C11: connect() never rejects; called with status connected it resolves
\* true and leaves the token, the token request and the transport alone; it
\* resolves true when the token has come, refreshProvider has run and the
\* transport's connect has returned; it resolves false when the token
\* request fails or times out or the transport's connect throws.
C11_ConnectNeverRejects ==
    /\ [](note.result \in {"none", "true", "false"})
    /\ [][/\ ConnectCall /\ providerConnected =>
                /\ note'.result = "true"
                /\ UNCHANGED <<clientToken, url, shouldConnect, ws,
                               wsUnsuccessfulReconnects, pendingUser,
                               pendingAuto, tokenCallback>>
          /\ ConnectCall /\ ~providerConnected => note'.result = "none"
          /\ ConnectSucceeds =>
                /\ note'.result = "true"
                /\ shouldConnect'
                /\ url' = ProviderUrl(clientToken', s3rn)
                /\ ws' # Null
          /\ ConnectFails => note'.result = "false"]_vars

\* a connect() has resolved false after its token came: the transport took
\* the intent and threw before it had a socket
C11_Witness ==
    /\ note.op = "connect_failed"
    /\ note.result = "false"
    /\ shouldConnect
    /\ ws = Null
    /\ note.rest

\* both peers hold the same bytes, and they hash to the shared hash
Converged ==
    \A f \in Files :
       /\ local[f] # NoFile
       /\ generateHash(local[f]) = hashes[GuidOf(f)]

\* a CAS write of a push failed
WriteFailed == last.wr = "fail"

\* a sync() has just chosen push() for a file whose hash differs from the
\* shared hash that is there: the shared sync time was not ahead of the file's
PushedOverNewer ==
    \E t \in SyncTasks :
       /\ run[t].pc = "push_lookup"
       /\ run[t].op = "sync"
       /\ run[t].h0 \notin {Undefined, filehash[FileOf(t)]}

\* C12: two peers with different bytes for one guid, neither editing and
\* both calling sync() again and again with their steps interleaved, come
\* to hold the same bytes, hashing to hashes[guid] - at least when no CAS
\* write fails and no sync() meets a shared sync time equal to its file's.
C12_ConcurrentPushesConverge ==
    (<>WriteFailed) \/ (<>PushedOverNewer) \/ (<>Converged)

\* refreshProvider, called by the token store or by the address setter,
\* changes the URL
UrlRefresh ==
    /\ url' # url
    /\ \/ \E tok \in IssuedTokens : TokenRefresh(tok)
       \/ \E entity \in Addresses : SetS3rn(entity)

\* C13: a connect() that connects, a disconnect(), a refreshProvider() that
\* changes the URL and a connection-error event each call the listeners,
\* within the same step, with the {status, intent} the handle then has.
C13_EveryChangeNotifies ==
    [][ConnectSucceeds \/ ProviderDisconnect \/ UrlRefresh \/ ConnectionError =>
          note'.snap = stateOf(ws', shouldConnect')]_vars

\* a step of file f's own connect(): the call, or the folder's connect()
\* it waits for settling
OwnConnect(f) ==
    \/ FileConnectCall(f)
    \/ FileTokenFail(f)
    \/ \E tok \in IssuedTokens :
          FileTokenResolve(f, tok) \/ FileConnectThrows(f, tok)

\* C14: every file's connected flag starts true; a disconnect() or a
\* connection error of the parent handle, which notify intent disconnected,
\* makes it false; and once false it is false after every step that is not
\* a step of the file's own connect() - the handle's reconnects included.
C14_DisconnectedUntilOwnConnect ==
    /\ \A f \in Files : connected[f]
    /\ [][\A f \in Files :
             /\ ProviderDisconnect \/ ConnectionError => ~connected'[f]
             /\ ~connected[f] /\ ~OwnConnect(f) => ~connected'[f]]_vars

\* after a connection error that the handler retried, the handle has
\* connected again and both files are still disconnected
C14_Witness ==
    /\ note.op = "connected"
    /\ autoRetries > 0
    /\ pendingAuto = 0
    /\ shouldConnect
    /\ ws = Socket(CONNECTING)
    /\ \A f \in Files : ~connected[f]

\* what activation t has called, while it runs and in the step it returns
Chosen(t) == IF run[t].pc # "idle" THEN run[t].called ELSE last.called

\* C15: sync() on a connected file with no local materialization calls
\* pull() at once; with one it calls neither before its hash recompute, sets
\* localHash to the hash of the bytes it read, and then calls pull() exactly
\* when localHash differs from hashes[guid] and syncTimes[guid] is ahead of
\* localSyncTime, and push() otherwise; what a sync() has called never
\* changes while it runs.
C15_SyncDecisionTree ==
    [][\A t \in SyncTasks :
          LET f == FileOf(t)
              g == GuidOf(f)
          IN  /\ SyncCall(t) /\ connected[f] /\ ~tfile[f] => Chosen(t)' = "pull"
              /\ SyncCall(t) /\ connected[f] /\ tfile[f] /\ local[f] # NoFile =>
                    /\ run'[t].pc = "sync_read"
                    /\ run'[t].called = "none"
              /\ SyncRead(t) => run'[t].buf = local[f] /\ run'[t].called = "none"
              /\ SyncHash(t) =>
                    /\ filehash'[f] = generateHash(run[t].buf)
                    /\ Chosen(t)' \in {"pull", "push"}
                    /\ Chosen(t)' = "pull" <=>
                          /\ filehash'[f] # hashes[g]
                          /\ OrZero(synctimes[g]) > synctime[f]
              /\ run[t].op = "sync" /\ run[t].called # "none" =>
                    Chosen(t)' = run[t].called]_vars

\* a sync() of a peer that had the file, found it stale and behind, and
\* pulled
C15_Witness ==
    /\ last.task = "b1"
    /\ last.op = "sync"
    /\ last.called = "pull"
    /\ last.status = "ok"
    /\ synctime["B"] > 0
    /\ filehash["B"] = hashes["g1"]

\* C16: a connection-error event always leaves intent disconnected and no
\* socket, with the listeners told so; the handler calls connect()
\* exactly when, before that disconnect, the URL was present, intent was
\* connected and the error count was below 3; that connect() comes after
\* the disconnect, so it asks for a token even if the socket was open; and an
\* event that finds intent disconnected starts no connect().
C16_ErrorHandlerOrder ==
    [][ConnectionError =>
          /\ ~shouldConnect'
          /\ ws' = Null
          /\ note'.snap = [status |-> "disconnected", intent |-> "disconnected"]
          /\ \A f \in Files : ~connected'[f]
          /\ Retried <=> /\ UrlPresent(url)
                         /\ shouldConnect
                         /\ wsUnsuccessfulReconnects < PROVIDER_MAX_ERRORS
          /\ ~Retried => pendingAuto' = pendingAuto
          /\ ~shouldConnect => pendingAuto' = pendingAuto
          /\ UNCHANGED <<pendingUser, pendingFile, url, clientToken>>]_vars

\* an error event has come while the automatic reconnect of an earlier one
\* was still waiting for its token, and has started no second connect()
C16_Witness ==
    /\ note.op = "error"
    /\ note.rest
    /\ pendingAuto = 1
    /\ autoRetries = 1
    /\ errsSinceReset = 2
    /\ straysSinceOpen = 1

\* C17: the status is 'connecting' for a CONNECTING socket, 'connected' for
\* an OPEN one, 'disconnected' for a CLOSING or CLOSED one and for no
\* socket, and always one of connecting, connected, disconnected, unknown.
C17_StatusDerivation ==
    /\ ws = Socket(CONNECTING) => status = "connecting"
    /\ ws = Socket(OPEN) => status = "connected"
    /\ ws \in {Socket(CLOSING), Socket(CLOSED), Null} => status = "disconnected"
    /\ status \in {"connecting", "connected", "disconnected", "unknown"}

\* C18: after disconnect(), from any state, intent is disconnected, there
\* is no socket and the status is disconnected; a disconnect() that follows
\* a disconnect() changes nothing of the handle or of its files; and
\* disconnect() starts no connect().
C18_DisconnectIdempotent ==
    [][ProviderDisconnect =>
          /\ ~shouldConnect'
          /\ ws' = Null
          /\ stateOf(ws', shouldConnect') =
                [status |-> "disconnected", intent |-> "disconnected"]
          /\ UNCHANGED <<pendingAuto, pendingUser, pendingFile>>
          /\ note.op = "disconnect" =>
                UNCHANGED <<s3rn, clientToken, url, shouldConnect, ws,
                            wsUnsuccessfulReconnects, tokenCallback, connected>>]_vars

\* a disconnect() called on a handle that had connected before and was
\* already disconnected and cleared
C18_Witness ==
    /\ note.op = "disconnect"
    /\ note.rest
    /\ clientToken \in IssuedTokens
    /\ UrlPresent(url)
    /\ ~shouldConnect
    /\ ws = Null

\* C19: whenever push() returns a hash h, the shared hashes[guid] is h, the
\* file's cached local hash is h, and the file is not stale, whatever ran
\* between push()'s suspension points.
C19_PushReturnsNotStale ==
    [][\A t \in Tasks :
          PushReturns(t) =>
              /\ hashes'[GuidOf(FileOf(t))] = last'.hash
              /\ filehash'[FileOf(t)] = last'.hash
              /\ ~isStale(FileOf(t))']_vars

\* a step of activation t's pull(), called directly or by sync()
PullStep(t) ==
    PullCall(t) \/ PullLookup(t) \/ PullRead(t) \/ PullWrite(t) \/ PullHash(t)

\* C20: a pull() changes only its file's local bytes, cached local hash and
\* local handle: each of its steps leaves every localSyncTime, hashes[guid],
\* syncTimes[guid] and the store unchanged, so shouldPull has the same value
\* after the step as before it; and shouldPull turns false only in a step
\* where a push() of that file returns and advances its localSyncTime.
C20_PullFrame ==
    /\ [][\A t \in Tasks :
            PullStep(t) =>
                /\ UNCHANGED <<synctime, hashes, synctimes, cas>>
                /\ \A f \in Files : shouldPull(f)' = shouldPull(f)
                /\ \A f \in Files \ {FileOf(t)} :
                      /\ local'[f] = local[f]
                      /\ filehash'[f] = filehash[f]
                      /\ tfile'[f] = tfile[f]]_vars
    /\ [][\A f \in Files :
            (shouldPull(f) /\ ~shouldPull(f)') =>
                \E t \in Tasks :
                    /\ FileOf(t) = f
                    /\ PushReturns(t)
                    /\ synctime'[f] # synctime[f]]_vars

\* a pull() has returned, having written the server's bytes and cached their
\* hash, and shouldPull is still true for its file
C20_Witness ==
    /\ last.task \in Tasks
    /\ last.called = "pull"
    /\ last.status = "ok"
    /\ shouldPull(FileOf(last.task))
    /\ ~isStale(FileOf(last.task))
    /\ local[FileOf(last.task)] # NoFile

\* C21: SyncFile.connect() on a file of a local-only folder, or of a folder
\* whose shouldConnect is false, yields false, leaves the file's connected
\* flag as it was and calls no connect() of the folder; with shouldConnect
\* true it calls the folder's connect(), and in the step that connect()
\* resolves, true or false, the file's flag is true and the file's
\* connect() resolves true.
C21_FileConnect ==
    [][\A f \in Reconnecting :
          /\ \A b \in BOOLEAN :
                FileConnect(f, b) /\ (s3rn.kind = "S3Folder" \/ ~b) =>
                    /\ note'.file = "false"
                    /\ UNCHANGED <<connected, pendingFile, pendingUser,
                                   pendingAuto, shouldConnect, ws>>
          /\ FileConnect(f, TRUE) /\ s3rn.kind # "S3Folder" =>
                IF providerConnected
                THEN connected'[f] /\ note'.file = "true" /\ note'.result = "true"
                ELSE /\ pendingFile' = pendingFile \cup {f}
                     /\ note'.file = "none"
                     /\ UNCHANGED connected
          /\ (f \in pendingFile /\ f \notin pendingFile') =>
                /\ connected'[f]
                /\ note'.file = "true"
                /\ note'.result \in {"true", "false"}
          /\ FileTokenFail(f) \/ (\E tok \in IssuedTokens : FileConnectThrows(f, tok)) =>
                /\ note'.result = "false"
                /\ note'.file = "true"
                /\ connected'[f]]_vars

\* the folder's connect() has resolved false for a file's connect(): the
\* handle is not connected, the file's flag, false since a disconnect that
\* the other file still shows, is true again and its connect() resolved true
C21_Witness ==
    /\ note.op = "connect_failed"
    /\ note.result = "false"
    /\ note.file = "true"
    /\ ~providerConnected
    /\ \A f \in Reconnecting : connected[f]
    /\ \E f \in Files \ Reconnecting : ~connected[f]

====
